---- MODULE Spec2Model ----
(***************************************************************************)
(* Employee record store: the web CRUD surface (app/views/main.py) and the *)
(* read-only query adapter in its two forms, the protocol server           *)
(* (mcp/employees_server.py) and the directly callable interface           *)
(* (mcp/simple_db_interface.py), over one SQLite table pair.               *)
(*                                                                         *)
(* Text is a sequence of one-character strings, so that lower(), strip(),  *)
(* `in`, startswith, LIKE and float() are computed and not assumed.        *)
(* A nullable column holds <<>> for NULL/None and <<v>> for the value v.   *)
(***************************************************************************)
EXTENDS Integers, Sequences, FiniteSets, TLC

VARIABLES
    employees,    \* the committed rows of table employees
    departments,  \* the committed rows of table departments
    session,      \* the ORM session of the web process: rows changed but not committed
    req,          \* the request being answered: operation, front end, arguments
    resp,         \* the answer to req: status, text parts, result
    executed,     \* the statements req handed to the database engine, in order
    connections,  \* the connections of the adapter process: open ones, ones req made
    loop          \* where the command loop of main is: "input", "dispatch" or "ended"

vars == <<employees, departments, session, req, resp, executed, connections, loop>>

(***************************************************************************)
(* Bounds of the model.                                                    *)
(***************************************************************************)
\* employee identifiers are capped: a create that would assign a larger id is not taken
MaxId == 2
\* a query text is the concatenation of at most this many fragments
MaxFrags == 2

None == <<>>
Some(v) == <<v>>

(***************************************************************************)
(* Text primitives of the Python runtime.                                  *)
(***************************************************************************)
UpperLetters == <<"A","B","C","D","E","F","G","H","I","J","K","L","M",
                  "N","O","P","Q","R","S","T","U","V","W","X","Y","Z">>
LowerLetters == <<"a","b","c","d","e","f","g","h","i","j","k","l","m",
                  "n","o","p","q","r","s","t","u","v","w","x","y","z">>
Whitespace == {" ", "\t", "\n"}

\* str.lower() on one character
lower_char(c) ==
    IF \E i \in 1..Len(UpperLetters) : UpperLetters[i] = c
    THEN LowerLetters[CHOOSE i \in 1..Len(UpperLetters) : UpperLetters[i] = c]
    ELSE c

\* faulty variant of lower: the text is compared in the case it came in
lower_identity(s) == s

\* str.lower()
lower(s) == [i \in 1..Len(s) |-> lower_char(s[i])]

RECURSIVE lstrip(_)
\* str.lstrip(): drop leading whitespace
lstrip(s) ==
    IF s # <<>> /\ Head(s) \in Whitespace THEN lstrip(Tail(s)) ELSE s

RECURSIVE rstrip(_)
\* str.rstrip(): drop trailing whitespace
rstrip(s) ==
    IF s # <<>> /\ s[Len(s)] \in Whitespace
    THEN rstrip(SubSeq(s, 1, Len(s) - 1))
    ELSE s

\* str.strip()
strip(s) == rstrip(lstrip(s))

\* str.startswith(prefix)
startswith(s, prefix) ==
    /\ Len(prefix) <= Len(s)
    /\ SubSeq(s, 1, Len(prefix)) = prefix

RECURSIVE find_from(_, _, _)
\* the scan behind `keyword in text`: first match position at or after i, 0 if none
find_from(keyword, text, i) ==
    IF i + Len(keyword) - 1 > Len(text) THEN 0
    ELSE IF SubSeq(text, i, i + Len(keyword) - 1) = keyword THEN i
    ELSE find_from(keyword, text, i + 1)

\* Python's `keyword in text`
str_in(keyword, text) == find_from(keyword, text, 1) # 0

(***************************************************************************)
(* validate_sql_safety: the denylist check, in its two copies.             *)
(***************************************************************************)
SELECT_WORD == <<"s","e","l","e","c","t">>

dangerous_keywords == <<
    <<"d","r","o","p">>,
    <<"d","e","l","e","t","e">>,
    <<"t","r","u","n","c","a","t","e">>,
    <<"a","l","t","e","r">>,
    <<"c","r","e","a","t","e">>,
    <<"i","n","s","e","r","t">>,
    <<"u","p","d","a","t","e">>,
    <<"g","r","a","n","t">>,
    <<"r","e","v","o","k","e">>,
    <<"e","x","e","c">>,
    <<"e","x","e","c","u","t","e">>,
    <<"s","p","_">>,
    <<"x","p","_">>,
    <<"-","-">>,
    <<"/","*">>,
    <<"*","/">> >>

RECURSIVE no_keyword_from(_, _)
\* the for loop over dangerous_keywords: FALSE at the first keyword found
no_keyword_from(sql_lower, i) ==
    IF i > Len(dangerous_keywords) THEN TRUE
    ELSE IF str_in(dangerous_keywords[i], sql_lower) THEN FALSE
    ELSE no_keyword_from(sql_lower, i + 1)

\* employees_server.validate_sql_safety; sql_lower is assigned once, before the loop
validate_sql_safety(sql) ==
    \E sql_lower \in {strip(lower(sql))} :
        IF ~no_keyword_from(sql_lower, 1) THEN FALSE
        ELSE IF ~startswith(sql_lower, SELECT_WORD) THEN FALSE
        ELSE TRUE

\* faulty variant of db_validate_sql_safety: every text passes
db_validate_sql_safety_accept_all(sql) == TRUE

\* EmployeeDBInterface.validate_sql_safety; sql_lower is assigned once, before the loop
db_validate_sql_safety(sql) ==
    \E sql_lower \in {strip(lower(sql))} :
        IF ~no_keyword_from(sql_lower, 1) THEN FALSE
        ELSE IF ~startswith(sql_lower, SELECT_WORD) THEN FALSE
        ELSE TRUE

(***************************************************************************)
(* The database engine: the SQL the program sends, computed on the tables. *)
(* An employees row is [id, name, department_id, salary, hire_date]; a     *)
(* departments row is [id, name].                                          *)
(***************************************************************************)
RECURSIVE order_by_id(_)
\* ORDER BY id: the rows of a set, ascending by id
order_by_id(rows) ==
    IF rows = {} THEN <<>>
    ELSE LET first == CHOOSE r \in rows : \A o \in rows : r.id <= o.id
         IN  <<first>> \o order_by_id(rows \ {first})

\* faulty variant of joined_department_name: the join never finds the department
joined_department_name_missing(e, depts) == None

\* d.name of the LEFT JOIN departments d ON e.department_id = d.id: NULL without a match
joined_department_name(e, depts) ==
    IF e.department_id # None /\ \E d \in depts : d.id = e.department_id[1]
    THEN Some((CHOOSE d \in depts : d.id = e.department_id[1]).name)
    ELSE None

\* SELECT e.id, e.name, e.department_id, d.name as department_name, e.salary, e.hire_date
left_join_row(e, depts) ==
    [id              |-> e.id,
     name            |-> e.name,
     department_id   |-> e.department_id,
     department_name |-> joined_department_name(e, depts),
     salary          |-> e.salary,
     hire_date       |-> e.hire_date]

\* FROM employees e LEFT JOIN departments d ON e.department_id = d.id
left_join(emps, depts) == {left_join_row(e, depts) : e \in emps}

\* LIMIT n of SQLite: a negative n is no limit
sql_limit(rows, n) ==
    IF n < 0 THEN rows
    ELSE IF n >= Len(rows) THEN rows
    ELSE SubSeq(rows, 1, n)

RECURSIVE pattern_compare(_, _)
\* the LIKE matcher of SQLite: % is any run, _ is any one character, and
\* ASCII letters compare without regard to case
pattern_compare(pattern, text) ==
    IF pattern = <<>> THEN text = <<>>
    ELSE IF Head(pattern) = "%"
         THEN \/ pattern_compare(Tail(pattern), text)
              \/ (text # <<>> /\ pattern_compare(pattern, Tail(text)))
    ELSE IF text = <<>> THEN FALSE
    ELSE IF Head(pattern) = "_" THEN pattern_compare(Tail(pattern), Tail(text))
    ELSE /\ lower_char(Head(pattern)) = lower_char(Head(text))
         /\ pattern_compare(Tail(pattern), Tail(text))

\* column LIKE ?: a NULL column never satisfies the WHERE clause
sql_like(column, pattern) ==
    column # None /\ pattern_compare(pattern, column[1])

\* f"%{filter}%"
wrap_wildcards(filter) == <<"%">> \o filter \o <<"%">>

RECURSIVE sum_of(_)
sum_of(values) ==
    IF values = <<>> THEN 0 ELSE Head(values) + sum_of(Tail(values))

RECURSIVE gcd(_, _)
gcd(a, b) == IF b = 0 THEN a ELSE gcd(b, a % b)

abs(n) == IF n < 0 THEN -n ELSE n

\* the quotient total / count as a fraction <<numerator, denominator>> in lowest terms
ratio(total, count) ==
    LET g == gcd(abs(total), count)
    IN  <<total \div g, count \div g>>

\* the non-NULL salaries of a set of rows, in id order
salaries_of(rows) ==
    LET ordered == order_by_id(rows)
    IN  SelectSeq([i \in 1..Len(ordered) |-> ordered[i].salary], LAMBDA s : s # None)

\* SELECT COUNT(*), AVG(salary), MIN(salary), MAX(salary) over a set of rows:
\* COUNT(*) counts every row, the other three skip NULL and are NULL without a value
aggregate(rows) ==
    LET present == salaries_of(rows)
        values  == [i \in 1..Len(present) |-> present[i][1]]
        range   == {values[i] : i \in 1..Len(values)}
    IN  [total_employees |-> Cardinality(rows),
         avg_salary |-> IF values = <<>> THEN None
                        ELSE Some(ratio(sum_of(values), Len(values))),
         min_salary |-> IF values = <<>> THEN None
                        ELSE Some(CHOOSE m \in range : \A v \in range : m <= v),
         max_salary |-> IF values = <<>> THEN None
                        ELSE Some(CHOOSE m \in range : \A v \in range : m >= v)]

\* Python truth value of an optional integer argument: None and 0 are false
truthy_int(arg) == arg # None /\ arg[1] # 0

\* Python truth value of a text argument: the empty text is false
truthy_text(text) == text # <<>>

(***************************************************************************)
(* The six read operations of the adapter.  The protocol server and the    *)
(* direct interface send the same SQL, so each query is one operator; the  *)
(* two front ends differ in defaults, answers and error paths only.        *)
(***************************************************************************)
DEFAULT_LIST_LIMIT == 100
DEFAULT_SEARCH_LIMIT == 50
\* "maximum" of limit in the input schema of list_employees; no handler reads it
MAX_LIST_LIMIT == 1000

\* argument with default: arguments.get(key, default) / the default parameter value
arg_or(arg, default) == IF arg = None THEN default ELSE arg[1]

\* list_employees: ... ORDER BY e.id LIMIT ?
list_employees_rows(emps, depts, limit) ==
    sql_limit(order_by_id(left_join(emps, depts)), limit)

\* get_employee: ... WHERE e.id = ?, fetchone()
get_employee_row(emps, depts, employee_id) ==
    LET rows == order_by_id({r \in left_join(emps, depts) : r.id = employee_id})
    IN  IF rows = <<>> THEN None ELSE Some(rows[1])

\* faulty variant of search_where: the filters are joined by OR
search_where_or(r, name, department) ==
    \/ (truthy_text(name) /\ sql_like(Some(r.name), wrap_wildcards(name)))
    \/ (truthy_text(department) /\ sql_like(r.department_name, wrap_wildcards(department)))

\* search_employees: WHERE 1=1 [AND e.name LIKE ?] [AND d.name LIKE ?]
search_where(r, name, department) ==
    /\ (truthy_text(name) => sql_like(Some(r.name), wrap_wildcards(name)))
    /\ (truthy_text(department) => sql_like(r.department_name, wrap_wildcards(department)))

\* search_employees: ... ORDER BY e.id LIMIT ?
search_employees_rows(emps, depts, name, department, limit) ==
    sql_limit(order_by_id({r \in left_join(emps, depts) :
                              search_where(r, name, department)}), limit)

\* list_departments: SELECT * FROM departments ORDER BY id
list_departments_rows(depts) == order_by_id(depts)

\* get_employee_stats: the filtered SELECT when department_id is truthy, else the global one
get_employee_stats_row(emps, department_id) ==
    IF truthy_int(department_id)
    THEN aggregate({e \in emps : e.department_id = Some(department_id[1])})
    ELSE aggregate(emps)

(***************************************************************************)
(* The web CRUD surface.  A form field is a text; `x or None` turns the    *)
(* empty text into None.  float() is computed on the digits, and the       *)
(* INTEGER column stores the number a digit text denotes.                  *)
(***************************************************************************)
Digits == <<"0","1","2","3","4","5","6","7","8","9">>

is_digit(c) == \E i \in 1..Len(Digits) : Digits[i] = c

digit_value(c) == (CHOOSE i \in 1..Len(Digits) : Digits[i] = c) - 1

RECURSIVE digits_value(_, _)
\* the number a run of digits denotes, most significant digit first
digits_value(text, acc) ==
    IF text = <<>> THEN acc
    ELSE digits_value(Tail(text), 10 * acc + digit_value(Head(text)))

all_digits(text) == text # <<>> /\ \A i \in 1..Len(text) : is_digit(text[i])

\* faulty variant of float: no text raises ValueError
float_accept_all(text) == Some(0)

\* float(text) on integer literals: surrounding whitespace is dropped, one sign is
\* allowed, the rest must be digits; None stands for the ValueError
float(text) ==
    LET t    == strip(text)
        neg  == t # <<>> /\ Head(t) = "-"
        body == IF t # <<>> /\ Head(t) \in {"-", "+"} THEN Tail(t) ELSE t
    IN  IF all_digits(body)
        THEN Some(IF neg THEN 0 - digits_value(body, 0) ELSE digits_value(body, 0))
        ELSE None

\* the value an INTEGER column stores for a digit text bound to it
integer_affinity(text) == digits_value(text, 0)

\* request.form.get(field) or None
or_none(text) == IF text = <<>> THEN None ELSE Some(text)

\* SQLite checks foreign keys only under PRAGMA foreign_keys = ON, which the
\* application never issues on its connections
PRAGMA_foreign_keys == FALSE

EmptySession == [new |-> <<>>, dirty |-> {}, deleted |-> {}]

\* db.session.add(employee)
session_add(sess, employee) == [sess EXCEPT !.new = Append(@, employee)]

\* attribute assignment on a loaded row: the row's new image is pending
session_modify(sess, row) ==
    [sess EXCEPT !.dirty = {d \in @ : d.id # row.id} \cup {row}]

\* db.session.delete(employee)
session_delete(sess, employee_id) == [sess EXCEPT !.deleted = @ \cup {employee_id}]

\* the id an INTEGER PRIMARY KEY row gets: one more than the largest id in the table
next_id(emps) ==
    IF emps = {} THEN 1
    ELSE (CHOOSE m \in {e.id : e \in emps} : \A e \in emps : e.id <= m) + 1

RECURSIVE insert_all(_, _)
\* the INSERTs of a flush, in the order the objects were added
insert_all(emps, new) ==
    IF new = <<>> THEN emps
    ELSE insert_all(emps \cup {[id            |-> next_id(emps),
                                name          |-> Head(new).name,
                                department_id |-> Head(new).department_id,
                                salary        |-> Head(new).salary,
                                hire_date     |-> Head(new).hire_date]},
                    Tail(new))

\* the tables as the pending changes of the session leave them
flush(emps, sess) ==
    LET kept    == {e \in emps : e.id \notin sess.deleted}
        updated == {IF \E d \in sess.dirty : d.id = e.id
                    THEN CHOOSE d \in sess.dirty : d.id = e.id
                    ELSE e : e \in kept}
    IN  insert_all(updated, sess.new)

\* the foreign key employees.department_id -> departments.id holds of the rows
foreign_key_holds(emps, depts) ==
    \A e \in emps : e.department_id = None \/ \E d \in depts : d.id = e.department_id[1]

\* db.session.commit(): the flushed tables become the committed ones unless the
\* engine refuses the transaction; engine_ok = FALSE is a failure of the engine itself
commit(emps, depts, sess, engine_ok) ==
    LET flushed == flush(emps, sess)
        ok      == engine_ok /\ (PRAGMA_foreign_keys => foreign_key_holds(flushed, depts))
    IN  [ok        |-> ok,
         employees |-> IF ok THEN flushed ELSE emps,
         session   |-> IF ok THEN EmptySession ELSE sess]

\* db.session.rollback()
rollback(sess) == EmptySession

\* faulty variant of shutdown_session: the session outlives its request
shutdown_session_keep(sess) == sess

\* the teardown registered by db.init_app(app): session.remove() at the end of every
\* request discards whatever was not committed
shutdown_session(sess) == EmptySession

\* faulty variant of get_or_404: the identifier is not compared
get_or_404_any(emps, employee_id) ==
    IF emps # {} THEN Some(CHOOSE e \in emps : TRUE) ELSE None

\* Employee.query.get_or_404(employee_id): the row, or None for the 404
get_or_404(emps, employee_id) ==
    IF \E e \in emps : e.id = employee_id
    THEN Some(CHOOSE e \in emps : e.id = employee_id)
    ELSE None

INVALID_SALARY == "Invalid salary format"
CREATED == "Employee created successfully!"
UPDATED == "Employee updated successfully!"
DELETED == "Employee deleted successfully!"

\* what a request handler leaves behind
outcome(emps, sess, status, text, result) ==
    [employees |-> emps,
     session   |-> shutdown_session(sess),
     resp      |-> [status |-> status, text |-> text, result |-> result]]

\* faulty variant of department_column: the submitted department is lost
department_column_dropped(field) == None

\* the department_id column value of a submitted form field
department_column(field) ==
    IF or_none(field) = None THEN None ELSE Some(integer_affinity(field))

\* POST /employees/new
create_employee(emps, depts, sess, form, engine_ok) ==
    LET salary == or_none(form.salary)
    IN  IF salary # None /\ float(salary[1]) = None
        THEN outcome(emps, sess, "200", <<INVALID_SALARY>>, None)
        ELSE LET employee == [name          |-> form.name,
                              department_id |-> department_column(form.department_id),
                              salary        |-> IF salary = None THEN None
                                                ELSE float(salary[1]),
                              hire_date     |-> or_none(form.hire_date)]
                 s1 == session_add(sess, employee)
                 c  == commit(emps, depts, s1, engine_ok)
             IN  IF c.ok
                 THEN outcome(c.employees, c.session, "302", <<CREATED>>,
                              Some(next_id(flush(emps, sess))))
                 ELSE outcome(emps, rollback(s1), "200",
                              <<"Error creating employee: ", "engine">>, None)

\* POST /employees/<id>/edit
edit_employee(emps, depts, sess, employee_id, form, engine_ok) ==
    LET found == get_or_404(emps, employee_id)
    IN  IF found = None THEN outcome(emps, sess, "404", <<>>, None)
        ELSE
        LET salary   == or_none(form.salary)
            assigned == [found[1] EXCEPT
                            !.name          = form.name,
                            !.department_id = department_column(form.department_id),
                            !.hire_date     = or_none(form.hire_date)]
            s1       == session_modify(sess, assigned)
        IN  IF salary # None /\ float(salary[1]) = None
            THEN outcome(emps, s1, "200", <<INVALID_SALARY>>, None)
            ELSE LET s2 == session_modify(s1,
                               [assigned EXCEPT !.salary = IF salary = None THEN None
                                                           ELSE float(salary[1])])
                     c  == commit(emps, depts, s2, engine_ok)
                 IN  IF c.ok
                     THEN outcome(c.employees, c.session, "302", <<UPDATED>>, None)
                     ELSE outcome(emps, rollback(s2), "200",
                                  <<"Error updating employee: ", "engine">>, None)

\* POST /employees/<id>/delete
delete_employee(emps, depts, sess, employee_id, engine_ok) ==
    LET found == get_or_404(emps, employee_id)
    IN  IF found = None THEN outcome(emps, sess, "404", <<>>, None)
        ELSE LET s1 == session_delete(sess, employee_id)
                 c  == commit(emps, depts, s1, engine_ok)
             IN  IF c.ok
                 THEN outcome(c.employees, c.session, "302", <<DELETED>>, None)
                 ELSE outcome(emps, rollback(s1), "302",
                              <<"Error deleting employee: ", "engine">>, None)

(***************************************************************************)
(* The two front ends of the adapter.  An answer is [status, text, result]: *)
(* status "ok" with the JSON value in result, or with a message in text;   *)
(* any other status is the exception that leaves the call.                 *)
(***************************************************************************)
REFUSAL == "Query contains unsafe operations. Only SELECT statements are allowed."
NOT_FOUND == "Employee not found"

answer(status, text, result) == [status |-> status, text |-> text, result |-> result]

\* one cursor.execute: the statement and, for the passthrough, its text
statement(stmt, text) == [stmt |-> stmt, text |-> text]

call(resp_, executed_) == [resp |-> resp_, executed |-> executed_]

\* what cursor.execute does with a passthrough statement it is handed: "rows" is a
\* result set, "sqlite3.Error" a rejected statement, "sqlite3.Warning" the exception
\* the sqlite3 module of Python before 3.11 raises for a text of more than one
\* statement, "UnicodeEncodeError" the one it raises for a text that holds a lone
\* surrogate and so has no UTF-8 form
EngineOutcomes == {"rows", "sqlite3.Error", "sqlite3.Warning", "UnicodeEncodeError"}

\* the code point of a lone surrogate, as one character of a text
LONE_SURROGATE == "U+D800"

\* a statement separator with more text after it
multiple_statements(query) ==
    \E i \in 1..Len(query) :
        /\ query[i] = ";"
        /\ \E j \in (i + 1)..Len(query) : query[j] \notin Whitespace

\* the outcomes cursor.execute(query) can have: a text with a lone surrogate is not
\* encoded, a text of more than one statement is rejected with the exception of the
\* Python version, any other text is run or rejected by the engine
engine_outcomes(query) ==
    IF \E i \in 1..Len(query) : query[i] = LONE_SURROGATE THEN {"UnicodeEncodeError"}
    ELSE IF multiple_statements(query) THEN {"sqlite3.Error", "sqlite3.Warning"}
    ELSE {"rows", "sqlite3.Error"}

DELETE_EMPLOYEES ==
    <<"d","e","l","e","t","e">> \o <<" ">> \o <<"f","r","o","m">> \o <<" ">>
        \o <<"e","m","p","l","o","y","e","e","s">>
DROP_EMPLOYEES ==
    <<"d","r","o","p">> \o <<" ">> \o <<"t","a","b","l","e">> \o <<" ">>
        \o <<"e","m","p","l","o","y","e","e","s">>

\* sqlite3.connect: the employees table of the file, and the table as the connection
\* sees it inside the transaction it has open
sqlite3_connect(emps) == [file |-> emps, seen |-> emps]

\* cursor.execute of a statement that ran.  The five fixed statements are SELECTs and
\* write nothing; of a passthrough text, a DELETE is run inside the transaction the
\* sqlite3 module begins before it, a DROP TABLE outside of any transaction (the table
\* is gone with its rows), and any other text writes nothing
cursor_execute(conn, s) ==
    IF s.stmt # "passthrough" THEN conn
    ELSE IF startswith(lower(strip(s.text)), DELETE_EMPLOYEES) THEN [conn EXCEPT !.seen = {}]
    ELSE IF startswith(lower(strip(s.text)), DROP_EMPLOYEES) THEN [file |-> {}, seen |-> {}]
    ELSE conn

RECURSIVE execute_all(_, _)
execute_all(conn, stmts) ==
    IF stmts = <<>> THEN conn
    ELSE execute_all(cursor_execute(conn, Head(stmts)), Tail(stmts))

\* conn.close() with no commit before it: the open transaction is rolled back
conn_close(conn) == conn.file

\* the statements of a call that ran: a passthrough text that cursor.execute rejected
\* has changed nothing
statements_run(c) ==
    SelectSeq(c.executed, LAMBDA s : s.stmt # "passthrough" \/ c.resp.result # None)

\* faulty variant of server_safe_query: the text is executed without the check
server_safe_query_unchecked(query, engine) ==
    call(answer("ok", <<>>, Some("rows")), <<statement("passthrough", query)>>)

\* handle_call_tool, name == "safe_query"
server_safe_query(query, engine) ==
    IF ~validate_sql_safety(query)
    THEN call(answer("ok", <<"Error: ", REFUSAL>>, None), <<>>)
    ELSE IF engine = "rows"
         THEN call(answer("ok", <<>>, Some("rows")), <<statement("passthrough", query)>>)
    ELSE IF engine = "sqlite3.Error"
         THEN call(answer("ok", <<"SQL Error: ", "engine">>, None),
                   <<statement("passthrough", query)>>)
    ELSE call(answer(engine, <<"engine">>, None), <<statement("passthrough", query)>>)

\* EmployeeDBInterface.safe_query
db_safe_query(query, engine) ==
    IF ~db_validate_sql_safety(query)
    THEN call(answer("ValueError", <<REFUSAL>>, None), <<>>)
    ELSE IF engine = "rows"
         THEN call(answer("ok", <<>>, Some("rows")), <<statement("passthrough", query)>>)
    ELSE IF engine = "sqlite3.Error"
         THEN call(answer("ValueError", <<"SQL Error: ", "engine">>, None),
                   <<statement("passthrough", query)>>)
    ELSE call(answer(engine, <<"engine">>, None), <<statement("passthrough", query)>>)

\* handle_call_tool, name == "list_employees"; EmployeeDBInterface.list_employees
list_employees(emps, depts, limit) ==
    call(answer("ok", <<>>,
                Some(list_employees_rows(emps, depts, arg_or(limit, DEFAULT_LIST_LIMIT)))),
         <<statement("list_employees", <<>>)>>)

\* handle_call_tool, name == "get_employee": arguments["employee_id"] raises KeyError
\* when the argument is missing
server_get_employee(emps, depts, employee_id) ==
    IF employee_id = None THEN call(answer("KeyError", <<"employee_id">>, None), <<>>)
    ELSE LET row == get_employee_row(emps, depts, employee_id[1])
         IN  call(IF row # None THEN answer("ok", <<>>, row)
                  ELSE answer("ok", <<NOT_FOUND>>, None),
                  <<statement("get_employee", <<>>)>>)

\* EmployeeDBInterface.get_employee: the row or None
db_get_employee(emps, depts, employee_id) ==
    call(answer("ok", <<>>, get_employee_row(emps, depts, employee_id)),
         <<statement("get_employee", <<>>)>>)

\* handle_call_tool, name == "search_employees"; EmployeeDBInterface.search_employees
search_employees(emps, depts, name, department, limit) ==
    call(answer("ok", <<>>,
                Some(search_employees_rows(emps, depts, name, department,
                                           arg_or(limit, DEFAULT_SEARCH_LIMIT)))),
         <<statement("search_employees", <<>>)>>)

\* handle_call_tool, name == "list_departments"; EmployeeDBInterface.list_departments
list_departments(depts) ==
    call(answer("ok", <<>>, Some(list_departments_rows(depts))),
         <<statement("list_departments", <<>>)>>)

\* handle_call_tool, name == "get_employee_stats"; EmployeeDBInterface.get_employee_stats
get_employee_stats(emps, department_id) ==
    call(answer("ok", <<>>, Some(get_employee_stats_row(emps, department_id))),
         <<statement("get_employee_stats", <<>>)>>)

\* handle_call_tool, any other name
server_unknown_tool(name) == call(answer("ok", <<"Unknown tool: ", name>>, None), <<>>)

EMPLOYEES_URI == "employees://employees"
DEPARTMENTS_URI == "employees://departments"

\* handle_read_resource: the employees joined and ordered, the departments ordered, or
\* ValueError for any other uri
handle_read_resource(emps, depts, uri) ==
    IF uri = EMPLOYEES_URI
    THEN call(answer("ok", <<>>, Some(order_by_id(left_join(emps, depts)))),
              <<statement("read_employees", <<>>)>>)
    ELSE IF uri = DEPARTMENTS_URI
    THEN call(answer("ok", <<>>, Some(list_departments_rows(depts))),
              <<statement("read_departments", <<>>)>>)
    ELSE call(answer("ValueError", <<"Unknown resource: ", uri>>, None), <<>>)

(***************************************************************************)
(* The connections of the adapter process to the file: open counts the     *)
(* ones that are open, opened the ones the call being answered has made.   *)
(***************************************************************************)
NoConnections == [open |-> 0, opened |-> 0]

\* get_db_connection: sqlite3.connect makes a new connection at every call
get_db_connection(conns) == [open |-> conns.open + 1, opened |-> conns.opened + 1]

\* faulty variant of close_connection: the connection stays open
close_connection_skipped(conns) == conns

\* finally: conn.close()
close_connection(conns) == [conns EXCEPT !.open = conns.open - 1]

\* whether a call gets to get_db_connection: handle_call_tool and handle_read_resource
\* call it before they look at their arguments, and so does every method of
\* EmployeeDBInterface except safe_query, which raises the refusal of the check first
connects(op, via, c) == ~(via = "direct" /\ op = "safe_query" /\ c.executed = <<>>)

\* the connections when the call has returned or raised: the body of every call that
\* has a connection is a try with the close in its finally
connections_after(conns, op, via, c) ==
    IF connects(op, via, c) THEN close_connection(get_db_connection(conns))
    ELSE conns

(***************************************************************************)
(* The command loop of main over EmployeeDBInterface.  A pass of the loop  *)
(* is [pc, printed, calls]: where the loop goes on, what it has printed    *)
(* (as an answer: text parts, or the value dumped as JSON) and the calls   *)
(* of EmployeeDBInterface it has made.                                     *)
(***************************************************************************)
RECURSIVE split_from(_, _, _)
\* str.split() with no separator: the runs of characters between whitespace
split_from(s, i, word) ==
    IF i > Len(s) THEN (IF word = <<>> THEN <<>> ELSE <<word>>)
    ELSE IF s[i] \in Whitespace
         THEN (IF word = <<>> THEN <<>> ELSE <<word>>) \o split_from(s, i + 1, <<>>)
         ELSE split_from(s, i + 1, Append(word, s[i]))

split(s) == split_from(s, 1, <<>>)

RECURSIVE join(_)
\* " ".join(words)
join(words) ==
    IF words = <<>> THEN <<>>
    ELSE IF Len(words) = 1 THEN words[1]
    ELSE words[1] \o <<" ">> \o join(Tail(words))

\* int(text) of a word: one sign is allowed, the rest must be digits; None stands
\* for the ValueError
int(text) ==
    LET neg  == text # <<>> /\ Head(text) = "-"
        body == IF text # <<>> /\ Head(text) \in {"-", "+"} THEN Tail(text) ELSE text
    IN  IF all_digits(body)
        THEN Some(IF neg THEN 0 - digits_value(body, 0) ELSE digits_value(body, 0))
        ELSE None

QUIT == <<"q","u","i","t">>
LIST_EMPLOYEES == <<"l","i","s","t","_","e","m","p","l","o","y","e","e","s">>
GET_EMPLOYEE == <<"g","e","t","_","e","m","p","l","o","y","e","e">>
SEARCH_EMPLOYEES == <<"s","e","a","r","c","h","_","e","m","p","l","o","y","e","e","s">>
LIST_DEPARTMENTS == <<"l","i","s","t","_","d","e","p","a","r","t","m","e","n","t","s">>
GET_EMPLOYEE_STATS ==
    <<"g","e","t","_","e","m","p","l","o","y","e","e","_","s","t","a","t","s">>
SAFE_QUERY == <<"s","a","f","e","_","q","u","e","r","y">>

USAGE_GET_EMPLOYEE == "Usage: get_employee <id>"
USAGE_SAFE_QUERY == "Usage: safe_query <sql>"
UNKNOWN_COMMAND == "Unknown command"
INVALID_LITERAL == "invalid literal for int() with base 10"

NothingPrinted == answer("ok", <<>>, None)

pass(pc, printed, calls) == [pc |-> pc, printed |-> printed, calls |-> calls]

\* a call of a method of EmployeeDBInterface
method(op, c) == [op |-> op, c |-> c]

\* print(json.dumps(result, indent=2))
print_result(op, c) == pass("input", answer("ok", <<>>, c.resp.result), <<method(op, c)>>)

\* print(text)
print_text(text, calls) == pass("input", answer("ok", text, None), calls)

\* print(f"Error: {e}") in either except clause
print_error(message, calls) == print_text(<<"Error: ">> \o message, calls)

\* if not command: continue
continue_loop == pass("input", NothingPrinted, <<>>)

\* faulty variant of break_loop: the loop goes on
break_loop_ignored == pass("input", NothingPrinted, <<>>)

\* if cmd == "quit": break
break_loop == pass("ended", NothingPrinted, <<>>)

\* the body of the while loop of main for the words of the line read
main_iteration(emps, depts, command, engine) ==
    IF command = <<>> THEN continue_loop
    ELSE
    LET cmd == lower(command[1])
    IN  IF cmd = QUIT THEN break_loop
        ELSE IF cmd = LIST_EMPLOYEES
        THEN LET limit == IF Len(command) > 1 THEN int(command[2])
                          ELSE Some(DEFAULT_LIST_LIMIT)
             IN  IF limit = None THEN print_error(<<INVALID_LITERAL>>, <<>>)
                 ELSE print_result("list_employees", list_employees(emps, depts, limit))
        ELSE IF cmd = GET_EMPLOYEE
        THEN IF Len(command) < 2 THEN print_text(<<USAGE_GET_EMPLOYEE>>, <<>>)
             ELSE LET employee_id == int(command[2])
                  IN  IF employee_id = None THEN print_error(<<INVALID_LITERAL>>, <<>>)
                      ELSE LET c == db_get_employee(emps, depts, employee_id[1])
                           IN  IF c.resp.result # None THEN print_result("get_employee", c)
                               ELSE print_text(<<NOT_FOUND>>, <<method("get_employee", c)>>)
        ELSE IF cmd = SEARCH_EMPLOYEES
        THEN LET name       == IF Len(command) > 1 THEN command[2] ELSE <<>>
                 department == IF Len(command) > 2 THEN command[3] ELSE <<>>
                 limit      == IF Len(command) > 3 THEN int(command[4])
                               ELSE Some(DEFAULT_SEARCH_LIMIT)
             IN  IF limit = None THEN print_error(<<INVALID_LITERAL>>, <<>>)
                 ELSE print_result("search_employees",
                                   search_employees(emps, depts, name, department, limit))
        ELSE IF cmd = LIST_DEPARTMENTS
        THEN print_result("list_departments", list_departments(depts))
        ELSE IF cmd = GET_EMPLOYEE_STATS
        THEN IF Len(command) > 1 /\ int(command[2]) = None
             THEN print_error(<<INVALID_LITERAL>>, <<>>)
             ELSE print_result("get_employee_stats",
                               get_employee_stats(emps, IF Len(command) > 1
                                                        THEN int(command[2]) ELSE None))
        ELSE IF cmd = SAFE_QUERY
        THEN IF Len(command) < 2 THEN print_text(<<USAGE_SAFE_QUERY>>, <<>>)
             ELSE LET c == db_safe_query(join(Tail(command)), engine)
                  IN  IF c.resp.status = "ok" THEN print_result("safe_query", c)
                      ELSE print_error(c.resp.text, <<method("safe_query", c)>>)
        ELSE print_text(<<UNKNOWN_COMMAND>>, <<>>)

\* the outcomes cursor.execute can have in the pass for a line
line_engine_outcomes(line) ==
    LET command == split(strip(line))
    IN  IF Len(command) > 1 /\ lower(command[1]) = SAFE_QUERY
        THEN engine_outcomes(join(Tail(command)))
        ELSE {"rows"}

(***************************************************************************)
(* The inputs the requests are drawn from.                                 *)
(***************************************************************************)
Ada == <<"A","d","a">>
Ab == <<"a","b">>
Eng == <<"E","n","g">>
Ops == <<"O","p","s">>
DATE_A == <<"2023-01-15">>
DATE_B == <<"2024-02-01">>

\* the departments table is seeded outside the program and no operation writes it
DepartmentTables ==
    { {[id |-> 1, name |-> Eng]},
      {[id |-> 1, name |-> Eng], [id |-> 2, name |-> Ops]} }

form(name, department_id, salary, hire_date) ==
    [name |-> name, department_id |-> department_id, salary |-> salary,
     hire_date |-> hire_date]

\* submitted forms: department 2 exists in one of the two tables only and department 0
\* in none, and the last two salary texts are not numbers
Forms ==
    { form(Ada, <<"1">>, <<"5">>, DATE_A),
      form(Ab,  <<>>,    <<>>,    <<>>),
      form(Ab,  <<"2">>, <<"-","3">>, DATE_A),
      form(Ada, <<"2">>, <<" ","1","2">>, <<>>),
      form(Ab,  <<"1">>, <<>>,    DATE_B),
      form(Ada, <<"0">>, <<"0">>, DATE_B),
      form(Ab,  <<"1">>, <<"x">>, DATE_A),
      form(Ada, <<>>,    <<"1","x">>, <<>>) }

EmployeeIds == 1..(MaxId + 1)
LimitArgs == {None, Some(0 - 1), Some(0), Some(1)}
SearchLimitArgs == {None, Some(1)}
NameFilters == {<<>>, <<"a","d">>, <<"b">>, <<"_">>}
DepartmentFilters == {<<>>, <<"e","n">>, <<"O","p">>, <<"%">>}
StatsArgs == {None, Some(0), Some(1), Some(2), Some(7)}
UnknownTools == {"drop_employees"}

\* the fragments query texts are put together from
Fragments ==
    { <<"s","e","l","e","c","t">>, <<"S","E","L","E","C","T">>, <<" ">>, <<"*">>,
      <<"d","r","o","p">>, <<"D","E","L","E","T","E">>,
      <<"t","r","u","n","c","a","t","e">>, <<"a","l","t","e","r">>,
      <<"c","r","e">>, <<"a","t","e">>, <<"c","r","e","a","t","e","d","_","a","t">>,
      <<"i","n","s","e","r","t">>, <<"U","p","d","a","t","e">>, <<"g","r","a","n","t">>,
      <<"r","e","v","o","k","e">>, <<"e","x","e","c">>, <<"s","p">>, <<"_">>,
      <<"x","p","_">>, <<"-">>, <<"/">>, <<"1">>, <<"\n">> }

RECURSIVE concat(_)
concat(parts) == IF parts = <<>> THEN <<>> ELSE Head(parts) \o concat(Tail(parts))

SampleQueries ==
    { <<"s","e","l","e","c","t">> \o <<" ">> \o <<"1">>,
      <<" ">> \o <<"S","E","L","E","C","T">> \o <<" ">> \o <<"*">> \o <<" ">>,
      <<"s","e","l","e","c","t">> \o <<" ">> \o <<"c","r","e","a","t","e","d","_","a","t">>,
      <<"s","e","l","e","c","t">> \o <<" ">> \o <<"1">> \o <<"-">> \o <<"-">>,
      <<"D","E","L","E","T","E">> \o <<" ">> \o <<"*">>,
      <<"1">>,
      <<"s","e","l","e","c","t">> \o <<" ">> \o <<"1">> \o <<";">> \o <<"s","e","l","e","c","t">>,
      <<"s","e","l","e","c","t">> \o <<" ">> \o <<LONE_SURROGATE>>,
      <<"D","R","O","P">> \o <<" ">> \o <<"T","A","B","L","E">> \o <<" ">>
          \o <<"e","m","p","l","o","y","e","e","s">>,
      <<" ">> \o DELETE_EMPLOYEES }

\* the lines typed at the prompt of the command loop
InputLines ==
    { <<>>, <<" ">>, QUIT, <<" ">> \o <<"Q","u","i","T">> \o <<" ">> \o <<"1">>,
      LIST_EMPLOYEES,
      join(<<LIST_EMPLOYEES, <<"1">>>>),
      join(<<LIST_EMPLOYEES, <<"-","1">>>>),
      join(<<LIST_EMPLOYEES, <<"x">>>>),
      GET_EMPLOYEE,
      join(<<GET_EMPLOYEE, <<"1">>>>),
      join(<<GET_EMPLOYEE, <<"2">>>>),
      join(<<GET_EMPLOYEE, <<"1","x">>>>),
      SEARCH_EMPLOYEES,
      join(<<SEARCH_EMPLOYEES, <<"a","d">>>>),
      join(<<SEARCH_EMPLOYEES, <<"a","d">>, <<"e","n">>, <<"1">>>>),
      join(<<SEARCH_EMPLOYEES, <<"a","d">>, <<"e","n">>, <<"x">>>>),
      LIST_DEPARTMENTS,
      GET_EMPLOYEE_STATS,
      join(<<GET_EMPLOYEE_STATS, <<"1">>>>),
      join(<<GET_EMPLOYEE_STATS, <<"x">>>>),
      SAFE_QUERY,
      join(<<<<"S","a","f","e","_","Q","u","e","r","y">>, SELECT_WORD, <<"1">>>>),
      join(<<SAFE_QUERY, SELECT_WORD, <<"1">> \o <<";">> \o SELECT_WORD>>),
      join(<<SAFE_QUERY, SELECT_WORD, <<LONE_SURROGATE>>>>),
      join(<<SAFE_QUERY, DROP_EMPLOYEES>>),
      <<"h","e","l","p">>,
      <<"1">> }

\* the employees tables the loop is started over: what create requests have made
created(emps, depts, f) == create_employee(emps, depts, EmptySession, f, TRUE).employees

StoredTables(depts) ==
    { {},
      created({}, depts, form(Ada, <<"1">>, <<"5">>, DATE_A)),
      created(created({}, depts, form(Ada, <<"1">>, <<"5">>, DATE_A)),
              depts, form(Ab, <<>>, <<>>, <<>>)) }

(***************************************************************************)
(* The state machine: one action per request.                              *)
(***************************************************************************)
NoRequest == [op |-> "none", via |-> "none", args |-> <<>>]
NoAnswer == answer("none", <<>>, None)

Init ==
    /\ employees = {}
    /\ departments \in DepartmentTables
    /\ session = EmptySession
    /\ req = NoRequest
    /\ resp = NoAnswer
    /\ executed = <<>>
    /\ connections = NoConnections
    /\ loop = "input"

\* requests are handled one at a time: a handler starts when the answer to the
\* request before it has left
Idle == req = NoRequest

\* a request of the web process: it alone writes the tables and owns the session
Web(op, args, out) ==
    /\ req' = [op |-> op, via |-> "web", args |-> args]
    /\ employees' = out.employees
    /\ session' = out.session
    /\ resp' = out.resp
    /\ executed' = <<>>
    /\ UNCHANGED <<departments, connections, loop>>

\* a call of the adapter: its own process and connection; the file holds what the
\* statements that ran have written outside of a transaction, as no call commits
Adapter(op, via, args, c) ==
    /\ req' = [op |-> op, via |-> via, args |-> args]
    /\ resp' = c.resp
    /\ executed' = c.executed
    /\ employees' = conn_close(execute_all(sqlite3_connect(employees), statements_run(c)))
    /\ connections' = connections_after(connections, op, via, c)
    /\ UNCHANGED <<departments, session, loop>>

CreateEmployee ==
    /\ Idle
    /\ \E f \in Forms, engine_ok \in BOOLEAN :
           /\ next_id(employees) <= MaxId
           /\ Web("create_employee", [form |-> f, engine_ok |-> engine_ok],
                  create_employee(employees, departments, session, f, engine_ok))

EditEmployee ==
    /\ Idle
    /\ \E id \in EmployeeIds, f \in Forms, engine_ok \in BOOLEAN :
           Web("edit_employee", [employee_id |-> id, form |-> f, engine_ok |-> engine_ok],
               edit_employee(employees, departments, session, id, f, engine_ok))

DeleteEmployee ==
    /\ Idle
    /\ \E id \in EmployeeIds, engine_ok \in BOOLEAN :
           Web("delete_employee", [employee_id |-> id, engine_ok |-> engine_ok],
               delete_employee(employees, departments, session, id, engine_ok))

ServerListEmployees ==
    /\ Idle
    /\ \E limit \in LimitArgs :
           Adapter("list_employees", "server", [limit |-> limit],
                   list_employees(employees, departments, limit))

DbListEmployees ==
    /\ Idle
    /\ \E limit \in LimitArgs :
           Adapter("list_employees", "direct", [limit |-> limit],
                   list_employees(employees, departments, limit))

ServerGetEmployee ==
    /\ Idle
    /\ \E id \in {None} \cup {Some(i) : i \in EmployeeIds} :
           Adapter("get_employee", "server", [employee_id |-> id],
                   server_get_employee(employees, departments, id))

DbGetEmployee ==
    /\ Idle
    /\ \E id \in EmployeeIds :
           Adapter("get_employee", "direct", [employee_id |-> Some(id)],
                   db_get_employee(employees, departments, id))

ServerSearchEmployees ==
    /\ Idle
    /\ \E name \in NameFilters, department \in DepartmentFilters, limit \in SearchLimitArgs :
           Adapter("search_employees", "server",
                   [name |-> name, department |-> department, limit |-> limit],
                   search_employees(employees, departments, name, department, limit))

DbSearchEmployees ==
    /\ Idle
    /\ \E name \in NameFilters, department \in DepartmentFilters, limit \in SearchLimitArgs :
           Adapter("search_employees", "direct",
                   [name |-> name, department |-> department, limit |-> limit],
                   search_employees(employees, departments, name, department, limit))

ServerListDepartments ==
    /\ Idle
    /\ Adapter("list_departments", "server", <<>>, list_departments(departments))

DbListDepartments ==
    /\ Idle
    /\ Adapter("list_departments", "direct", <<>>, list_departments(departments))

ServerGetEmployeeStats ==
    /\ Idle
    /\ \E department_id \in StatsArgs :
           Adapter("get_employee_stats", "server", [department_id |-> department_id],
                   get_employee_stats(employees, department_id))

DbGetEmployeeStats ==
    /\ Idle
    /\ \E department_id \in StatsArgs :
           Adapter("get_employee_stats", "direct", [department_id |-> department_id],
                   get_employee_stats(employees, department_id))

ServerSafeQuery(query) ==
    /\ Idle
    /\ \E engine \in engine_outcomes(query) :
           Adapter("safe_query", "server", [query |-> query, engine |-> engine],
                   server_safe_query(query, engine))

DbSafeQuery(query) ==
    /\ Idle
    /\ \E engine \in engine_outcomes(query) :
           Adapter("safe_query", "direct", [query |-> query, engine |-> engine],
                   db_safe_query(query, engine))

ServerUnknownTool ==
    /\ Idle
    /\ \E name \in UnknownTools :
           Adapter(name, "server", <<>>, server_unknown_tool(name))

ResourceUris == {EMPLOYEES_URI, DEPARTMENTS_URI, "employees://salaries"}

ServerReadResource ==
    /\ Idle
    /\ \E uri \in ResourceUris :
           Adapter("read_resource", "server", [uri |-> uri],
                   handle_read_resource(employees, departments, uri))

ServerSafeQuerySample ==
    /\ Idle
    /\ \E query \in SampleQueries : ServerSafeQuery(query)

DbSafeQuerySample ==
    /\ Idle
    /\ \E query \in SampleQueries : DbSafeQuery(query)

\* input() has returned a line: the pass over it begins
ReadLine ==
    /\ Idle
    /\ loop = "input"
    /\ \E line \in InputLines :
           /\ req' = [op |-> "input", via |-> "loop", args |-> [line |-> line]]
           /\ loop' = "dispatch"
    /\ UNCHANGED <<employees, departments, session, resp, executed, connections>>

\* the rest of the pass: the line is split and the command is run and printed
Dispatch ==
    /\ loop = "dispatch"
    /\ \E command \in {split(strip(req.args.line))} :
       \E engine \in line_engine_outcomes(req.args.line) :
       \E p \in {main_iteration(employees, departments, command, engine)} :
           /\ req' = [op |-> "command", via |-> "loop",
                      args |-> [line |-> req.args.line, engine |-> engine]]
           /\ resp' = p.printed
           /\ executed' = IF p.calls = <<>> THEN <<>> ELSE p.calls[1].c.executed
           /\ employees' =
                  IF p.calls = <<>> THEN employees
                  ELSE conn_close(execute_all(sqlite3_connect(employees),
                                              statements_run(p.calls[1].c)))
           /\ connections' =
                  IF p.calls = <<>> THEN connections
                  ELSE connections_after(connections, p.calls[1].op, "direct",
                                         p.calls[1].c)
           /\ loop' = p.pc
    /\ UNCHANGED <<departments, session>>

\* input() raises EOFError when the input has ended: except Exception prints it and
\* the loop goes on
EndOfInput ==
    /\ Idle
    /\ loop = "input"
    /\ req' = [op |-> "EOFError", via |-> "loop", args |-> <<>>]
    /\ resp' = answer("ok", <<"Error: ", "EOF when reading a line">>, None)
    /\ UNCHANGED <<employees, departments, session, executed, connections, loop>>

\* except KeyboardInterrupt: break, wherever in the pass the interrupt arrives
KeyboardInterrupt ==
    /\ loop # "ended"
    /\ req.via \in {"none", "loop"}
    /\ req' = [op |-> "KeyboardInterrupt", via |-> "loop", args |-> <<>>]
    /\ loop' = "ended"
    /\ resp' = NoAnswer
    /\ executed' = <<>>
    /\ connections' = [connections EXCEPT !.opened = 0]
    /\ UNCHANGED <<employees, departments, session>>

\* the answer leaves and the process waits for the next request
Deliver ==
    /\ ~Idle
    /\ loop # "dispatch"
    /\ req' = NoRequest
    /\ resp' = NoAnswer
    /\ executed' = <<>>
    /\ connections' = [connections EXCEPT !.opened = 0]
    /\ UNCHANGED <<employees, departments, session, loop>>

Next ==
    \/ Deliver
    \/ CreateEmployee
    \/ EditEmployee
    \/ DeleteEmployee
    \/ ServerListEmployees
    \/ DbListEmployees
    \/ ServerGetEmployee
    \/ DbGetEmployee
    \/ ServerSearchEmployees
    \/ DbSearchEmployees
    \/ ServerListDepartments
    \/ DbListDepartments
    \/ ServerGetEmployeeStats
    \/ DbGetEmployeeStats
    \/ ServerSafeQuerySample
    \/ DbSafeQuerySample
    \/ ServerUnknownTool
    \/ ServerReadResource

Spec == Init /\ [][Next]_vars

ServerSafeQueryAny ==
    /\ Idle
    /\ \E n \in 0..MaxFrags : \E parts \in [1..n -> Fragments] :
          ServerSafeQuery(concat(parts))

DbSafeQueryAny ==
    /\ Idle
    /\ \E n \in 0..MaxFrags : \E parts \in [1..n -> Fragments] :
          DbSafeQuery(concat(parts))

\* the passthrough alone, over every query text of at most MaxFrags fragments
NextQuery ==
    \/ Deliver
    \/ ServerSafeQueryAny
    \/ DbSafeQueryAny

SpecQuery == Init /\ [][NextQuery]_vars

\* the command loop started over a stored table
InitLoop ==
    /\ departments \in DepartmentTables
    /\ employees \in StoredTables(departments)
    /\ session = EmptySession
    /\ req = NoRequest
    /\ resp = NoAnswer
    /\ executed = <<>>
    /\ connections = NoConnections
    /\ loop = "input"

NextLoop ==
    \/ ReadLine
    \/ Dispatch
    \/ EndOfInput
    \/ KeyboardInterrupt
    \/ Deliver

\* the interpreter goes on with the pass once input() has returned
SpecLoop == InitLoop /\ [][NextLoop]_vars /\ WF_vars(Dispatch)

(***************************************************************************)
(* Reference notions the properties are stated with.  They are written     *)
(* from the statements, not from the operators above.                      *)
(***************************************************************************)
\* the denylisted substrings
Denylist ==
    { <<"d","r","o","p">>, <<"d","e","l","e","t","e">>,
      <<"t","r","u","n","c","a","t","e">>, <<"a","l","t","e","r">>,
      <<"c","r","e","a","t","e">>, <<"i","n","s","e","r","t">>,
      <<"u","p","d","a","t","e">>, <<"g","r","a","n","t">>,
      <<"r","e","v","o","k","e">>, <<"e","x","e","c">>,
      <<"e","x","e","c","u","t","e">>, <<"s","p","_">>, <<"x","p","_">>,
      <<"-","-">>, <<"/","*">>, <<"*","/">> }

\* text holds part as a run of consecutive characters
Contains(text, part) ==
    \E i \in 0..Len(text) :
        /\ i + Len(part) <= Len(text)
        /\ \A k \in 1..Len(part) : text[i + k] = part[k]

\* text without its leading and trailing whitespace
Trim(text) ==
    LET inner == {i \in 1..Len(text) : text[i] \notin Whitespace}
    IN  IF inner = {} THEN <<>>
        ELSE LET first == CHOOSE i \in inner : \A j \in inner : i <= j
                 last  == CHOOSE i \in inner : \A j \in inner : i >= j
             IN  [k \in 1..(last - first + 1) |-> text[first + k - 1]]

\* text with its ASCII letters in lower case
Lowercase(text) == [i \in 1..Len(text) |-> lower_char(text[i])]

\* the safety check as stated: starts with select, holds no denylisted substring
SafeAsStated(sql) ==
    LET t == Lowercase(Trim(sql))
    IN  /\ Len(t) >= 6
        /\ \A k \in 1..6 : t[k] = SELECT_WORD[k]
        /\ \A word \in Denylist : ~Contains(t, word)

\* the answer carries the refusal as its last text part
Refused == resp.text # <<>> /\ resp.text[Len(resp.text)] = REFUSAL

(***************************************************************************)
(* C1.  For every query text, validate_sql_safety (both copies) is true    *)
(* exactly when the lowercased, trimmed text starts with select and holds  *)
(* none of the denylisted substrings anywhere; so a passthrough call is    *)
(* refused exactly for the other texts.                                    *)
(***************************************************************************)
C1_ValidatorMatchesDenylist ==
    req.op = "safe_query" =>
        /\ validate_sql_safety(req.args.query) = SafeAsStated(req.args.query)
        /\ db_validate_sql_safety(req.args.query) = SafeAsStated(req.args.query)
        /\ Refused = ~SafeAsStated(req.args.query)

\* a text that starts with select is refused for the substring create in created_at
C1_Witness ==
    /\ req.op = "safe_query"
    /\ req.args.query = SELECT_WORD \o <<"c","r","e","a","t","e","d","_","a","t">>
    /\ Refused

(***************************************************************************)
(* C2.  A passthrough call whose text fails the safety check hands nothing *)
(* to the engine, ends with the refusal text (in the answer text of the    *)
(* protocol server, in the ValueError of the direct interface), and leaves *)
(* both tables as they were.                                               *)
(***************************************************************************)
C2_UnsafeQueryNeverExecuted ==
    [][(req'.op = "safe_query" /\ ~SafeAsStated(req'.args.query)) =>
          /\ executed' = <<>>
          /\ resp'.text # <<>> /\ resp'.text[Len(resp'.text)] = REFUSAL
          /\ resp'.result = None
          /\ (req'.via = "server" => resp'.status = "ok")
          /\ (req'.via = "direct" => resp'.status = "ValueError")
          /\ employees' = employees
          /\ departments' = departments]_vars

\* an unsafe text was refused while the tables hold rows
C2_Witness ==
    /\ req.op = "safe_query"
    /\ req.via = "direct"
    /\ ~SafeAsStated(req.args.query)
    /\ resp.status = "ValueError"
    /\ executed = <<>>
    /\ employees # {}

(***************************************************************************)
(* C3.  A statistics call with a department filter, whatever integer it    *)
(* is, answers the count, average, minimum and maximum over exactly the    *)
(* rows of that department; only a call without a filter answers them over *)
(* all rows.                                                               *)
(***************************************************************************)
C3_StatsOverFilteredRows ==
    req.op = "get_employee_stats" =>
        resp.result =
            Some(aggregate(IF req.args.department_id = None THEN employees
                           ELSE {e \in employees :
                                    e.department_id = req.args.department_id}))

(***************************************************************************)
(* C4.  As stated: a search with both filters set returns only rows whose  *)
(* name holds the name filter and whose department name holds the          *)
(* department filter, both as case-sensitive substrings.                   *)
(***************************************************************************)
BothFiltersSet ==
    /\ req.op = "search_employees"
    /\ req.args.name # <<>>
    /\ req.args.department # <<>>

C4_CaseSensitiveSubstrings ==
    BothFiltersSet =>
        \A i \in 1..Len(resp.result[1]) :
            LET row == resp.result[1][i]
            IN  /\ Contains(row.name, req.args.name)
                /\ row.department_name # None
                /\ Contains(row.department_name[1], req.args.department)

\* part and piece have the same length and agree position by position, where ASCII
\* letters agree in either case and _ in part agrees with every character
AgreesLoosely(piece, part) ==
    /\ Len(piece) = Len(part)
    /\ \A k \in 1..Len(part) :
          part[k] = "_" \/ lower_char(part[k]) = lower_char(piece[k])

RECURSIVE MatchesLoosely(_, _)
\* piece is part with every % of part standing for some run of characters
MatchesLoosely(piece, part) ==
    IF \A k \in 1..Len(part) : part[k] # "%" THEN AgreesLoosely(piece, part)
    ELSE LET pct == CHOOSE k \in 1..Len(part) :
                        part[k] = "%" /\ \A j \in 1..(k - 1) : part[j] # "%"
         IN  \E a \in 0..Len(piece) : \E b \in a..Len(piece) :
                 /\ AgreesLoosely(SubSeq(piece, 1, a), SubSeq(part, 1, pct - 1))
                 /\ MatchesLoosely(SubSeq(piece, b + 1, Len(piece)),
                                   SubSeq(part, pct + 1, Len(part)))

\* some run of consecutive characters of text matches part loosely
ContainsLoosely(text, part) ==
    \E i \in 1..(Len(text) + 1) : \E j \in (i - 1)..Len(text) :
        MatchesLoosely(SubSeq(text, i, j), part)

(***************************************************************************)
(* C4, amended.  A search with both filters set returns only rows whose    *)
(* name matches the name filter somewhere and whose department name exists *)
(* and matches the department filter somewhere, where matching is that of  *)
(* LIKE: ASCII letters match in either case, _ in a filter matches any one *)
(* character and % any run.  A row without department, or matching only    *)
(* one filter, is not returned.                                            *)
(***************************************************************************)
C4_LikeSubstrings ==
    BothFiltersSet =>
        \A i \in 1..Len(resp.result[1]) :
            LET row == resp.result[1][i]
            IN  /\ ContainsLoosely(row.name, req.args.name)
                /\ row.department_name # None
                /\ ContainsLoosely(row.department_name[1], req.args.department)

\* a search for "ad" in department "en" returned Ada of Eng, and another employee
\* matching neither filter stayed out
C4_Witness ==
    /\ BothFiltersSet
    /\ req.args.name = <<"a","d">>
    /\ req.args.department = <<"e","n">>
    /\ Len(resp.result[1]) = 1
    /\ resp.result[1][1].name = Ada
    /\ Cardinality(employees) = 2

(***************************************************************************)
(* The numbers the submitted texts denote, listed text by text.            *)
(***************************************************************************)
NumberTexts ==
    { <<"0">>, <<"1">>, <<"2">>, <<"5">>, <<"-","3">>, <<" ","1","2">> }

NumberOf(text) ==
    CASE text = <<"0">> -> 0
      [] text = <<"1">> -> 1
      [] text = <<"2">> -> 2
      [] text = <<"5">> -> 5
      [] text = <<"-","3">> -> 0 - 3
      [] text = <<" ","1","2">> -> 12

\* a submitted field as the column value it should become: empty when the field is empty
StatedNumber(field) == IF field = <<>> THEN None ELSE Some(NumberOf(field))
StatedText(field) == IF field = <<>> THEN None ELSE Some(field)

(***************************************************************************)
(* C5.  Round trip: after a successful create with a name, an existing     *)
(* department, a numeric salary text and a hire date, get_employee on the  *)
(* new identifier returns that name, that department id, that salary as a  *)
(* number, that hire date, and the name of the department.                 *)
(***************************************************************************)
C5_CreateThenGetRoundTrip ==
    (/\ req.op = "create_employee"
     /\ resp.status = "302"
     /\ req.args.form.salary \in NumberTexts
     /\ req.args.form.hire_date # <<>>
     /\ req.args.form.department_id # <<>>
     /\ \E d \in departments : d.id = NumberOf(req.args.form.department_id))
    =>
    LET f        == req.args.form
        dept     == CHOOSE d \in departments : d.id = NumberOf(f.department_id)
        expected == [id              |-> resp.result[1],
                     name            |-> f.name,
                     department_id   |-> Some(NumberOf(f.department_id)),
                     department_name |-> Some(dept.name),
                     salary          |-> Some(NumberOf(f.salary)),
                     hire_date       |-> Some(f.hire_date)]
    IN  /\ server_get_employee(employees, departments, resp.result).resp.result
               = Some(expected)
        /\ db_get_employee(employees, departments, resp.result[1]).resp.result
               = Some(expected)

\* a second employee was created in an existing department with salary text "-3"
C5_Witness ==
    /\ req.op = "create_employee"
    /\ resp.status = "302"
    /\ resp.result = Some(2)
    /\ req.args.form = form(Ab, <<"2">>, <<"-","3">>, DATE_A)
    /\ \E d \in departments : d.id = 2

(***************************************************************************)
(* C6.  A delete request for an identifier no row has ends in 404, never   *)
(* in the success message, and leaves every row of both tables as it was.  *)
(***************************************************************************)
C6_DeleteMissingIsNotFound ==
    [][(/\ req'.op = "delete_employee"
        /\ \A e \in employees : e.id # req'.args.employee_id)
       =>
       /\ resp'.status = "404"
       /\ \A k \in 1..Len(resp'.text) : resp'.text[k] # DELETED
       /\ employees' = employees
       /\ departments' = departments]_vars

\* a delete of an identifier that is not among the rows of a non-empty table
C6_Witness ==
    /\ req.op = "delete_employee"
    /\ resp.status = "404"
    /\ employees # {}
    /\ \A e \in employees : e.id # req.args.employee_id

(***************************************************************************)
(* C7.  A create or edit submission (of an existing employee) whose salary *)
(* text is not empty and not a number reports 'Invalid salary format' and  *)
(* leaves the committed tables as they were; nothing of it stays pending   *)
(* in the session for a later request to commit.                           *)
(***************************************************************************)
C7_InvalidSalaryWritesNothing ==
    [][(/\ req'.op \in {"create_employee", "edit_employee"}
        /\ req'.args.form.salary # <<>>
        /\ req'.args.form.salary \notin NumberTexts
        /\ (req'.op = "edit_employee" =>
               \E e \in employees : e.id = req'.args.employee_id))
       =>
       /\ resp'.text = <<INVALID_SALARY>>
       /\ employees' = employees
       /\ departments' = departments
       /\ session' = EmptySession]_vars

\* an edit with salary text "x" was refused and the stored name is still the old one
C7_Witness ==
    /\ req.op = "edit_employee"
    /\ req.args.form.salary = <<"x">>
    /\ resp.text = <<INVALID_SALARY>>
    /\ \E e \in employees : e.id = req.args.employee_id /\ e.name # req.args.form.name

(***************************************************************************)
(* C8.  A list_employees call answers the employee rows in ascending       *)
(* identifier order, each with the name of its department (empty when it   *)
(* has none), at most `limit` of them, where limit is 100 when omitted,    *)
(* and never more than 1000 whatever limit is passed.                      *)
(***************************************************************************)
C8_ListOrderedJoinedAndBounded ==
    req.op = "list_employees" =>
        LET rows  == resp.result[1]
            limit == IF req.args.limit = None THEN 100 ELSE req.args.limit[1]
        IN  /\ \A i \in 1..Len(rows) : \A j \in 1..Len(rows) :
                   i < j => rows[i].id < rows[j].id
            /\ \A i \in 1..Len(rows) : \E e \in employees :
                   /\ e.id = rows[i].id
                   /\ rows[i].name = e.name
                   /\ rows[i].department_name =
                          IF e.department_id # None
                             /\ \E d \in departments : d.id = e.department_id[1]
                          THEN Some((CHOOSE d \in departments :
                                         d.id = e.department_id[1]).name)
                          ELSE None
            /\ Len(rows) <= (IF limit < 0 THEN 0 ELSE limit)
            /\ Len(rows) <= MAX_LIST_LIMIT

(***************************************************************************)
(* C9.  In every reachable state each employee row's department_id is      *)
(* empty or the identifier of an existing department row.                  *)
(***************************************************************************)
C9_DepartmentReferenceExists ==
    \A e \in employees :
        e.department_id = None \/ \E d \in departments : d.id = e.department_id[1]

(***************************************************************************)
(* C10.  A successful edit overwrites the four mutable fields of the       *)
(* identified employee and nothing else: the name becomes the submitted    *)
(* name; department, salary and hire date become the submitted value, or   *)
(* empty when the field is empty; the identifier, every other employee row *)
(* and every department row stay as they were.                             *)
(***************************************************************************)
C10_EditOverwritesFourFields ==
    [][(req'.op = "edit_employee" /\ resp'.status = "302")
       =>
       LET f   == req'.args.form
           old == {e \in employees : e.id = req'.args.employee_id}
       IN  /\ Cardinality(old) = 1
           /\ employees' = (employees \ old) \cup
                  {[id            |-> req'.args.employee_id,
                    name          |-> f.name,
                    department_id |-> StatedNumber(f.department_id),
                    salary        |-> StatedNumber(f.salary),
                    hire_date     |-> StatedText(f.hire_date)]}
           /\ departments' = departments]_vars

\* an edit with empty department, salary and hire date fields succeeded on one of
\* two employees, whose row now holds the new name and three empty columns
C10_Witness ==
    /\ req.op = "edit_employee"
    /\ resp.status = "302"
    /\ req.args.form = form(Ab, <<>>, <<>>, <<>>)
    /\ Cardinality(employees) = 2
    /\ \E e \in employees :
          /\ e.id = req.args.employee_id
          /\ e.name = Ab /\ e.department_id = None /\ e.salary = None
          /\ e.hire_date = None
    /\ \E e \in employees : e.id # req.args.employee_id /\ e.salary # None

(***************************************************************************)
(* C11.  A passthrough call whose text passes the safety check and whose   *)
(* execution fails is caught and answered as the text 'SQL Error: ...':    *)
(* the protocol server returns it as text, the direct interface raises it  *)
(* as ValueError; no other exception leaves the call.                      *)
(***************************************************************************)
C11_EngineRejectionIsSqlError ==
    (/\ req.op = "safe_query"
     /\ req.via \in {"server", "direct"}
     /\ SafeAsStated(req.args.query)
     /\ req.args.engine # "rows")
    =>
    /\ resp.text # <<>> /\ resp.text[1] = "SQL Error: "
    /\ (req.via = "server" => resp.status = "ok")
    /\ (req.via = "direct" => resp.status = "ValueError")

(***************************************************************************)
(* C12.  No call of the adapter, in either form and whatever its           *)
(* arguments or query text, changes the employees or the departments       *)
(* table; so after any sequence of calls both tables hold what they held   *)
(* before it.                                                              *)
(***************************************************************************)
C12_AdapterIsReadOnly ==
    [][req'.via \in {"server", "direct"} =>
          /\ employees' = employees
          /\ departments' = departments]_vars

\* a passthrough text was run by the engine over a table that holds rows
C12_Witness ==
    /\ req.op = "safe_query"
    /\ req.via = "direct"
    /\ resp.result = Some("rows")
    /\ executed # <<>>
    /\ employees # {}

(***************************************************************************)
(* C13.  Every call of the adapter makes at most one connection and has    *)
(* closed it when it ends, on every path: no connection is open after any  *)
(* sequence of calls, and the statements of a call run on the connection   *)
(* that call has made, never on one of an earlier call.                    *)
(***************************************************************************)
C13_OneConnectionPerCallAllClosed ==
    /\ connections.open = 0
    /\ connections.opened <= 1
    /\ (executed # <<>> => connections.opened = 1)

\* the tool call that raised KeyError for its missing argument has made one
\* connection and closed it
C13_Witness ==
    /\ req.via = "server"
    /\ resp.status = "KeyError"
    /\ connections.opened = 1
    /\ connections.open = 0

\* the submission gets as far as the commit: the row it names exists and its salary
\* text is empty or a number
ReachesCommit(r, emps) ==
    /\ (r.op \in {"edit_employee", "delete_employee"} =>
            \E e \in emps : e.id = r.args.employee_id)
    /\ (r.op \in {"create_employee", "edit_employee"} =>
            r.args.form.salary = <<>> \/ r.args.form.salary \in NumberTexts)

\* after holds all of the changes of submission r to before, and nothing else
AllChangesOf(r, before, after) ==
    IF r.op = "create_employee"
    THEN \E row \in after :
            /\ \A e \in before : e.id # row.id
            /\ row.name = r.args.form.name
            /\ after = before \cup {row}
    ELSE IF r.op = "edit_employee"
    THEN /\ {e \in after : e.id # r.args.employee_id}
              = {e \in before : e.id # r.args.employee_id}
         /\ \E row \in after : row.id = r.args.employee_id /\ row.name = r.args.form.name
         /\ Cardinality(after) = Cardinality(before)
    ELSE after = {e \in before : e.id # r.args.employee_id}

SuccessMessage(op) ==
    IF op = "create_employee" THEN "Employee created successfully!"
    ELSE IF op = "edit_employee" THEN "Employee updated successfully!"
    ELSE "Employee deleted successfully!"

FailureMessage(op) ==
    IF op = "create_employee" THEN "Error creating employee: "
    ELSE IF op = "edit_employee" THEN "Error updating employee: "
    ELSE "Error deleting employee: "

(***************************************************************************)
(* C14.  Every create, edit and delete submission is settled within its    *)
(* own request: when it ends either all of its changes are committed and   *)
(* success is reported, or the committed tables are what they were before  *)
(* it; when its commit fails, the tables are what they were and the        *)
(* failure message is reported; and in every case nothing uncommitted is   *)
(* left in the session for a later request to commit.                      *)
(***************************************************************************)
C14_SubmissionsAreAtomic ==
    [][req'.op \in {"create_employee", "edit_employee", "delete_employee"} =>
          /\ session' = EmptySession
          /\ departments' = departments
          /\ \/ /\ resp'.text = <<SuccessMessage(req'.op)>>
                /\ AllChangesOf(req', employees, employees')
             \/ /\ resp'.text # <<SuccessMessage(req'.op)>>
                /\ employees' = employees
          /\ (ReachesCommit(req', employees) =>
                 IF req'.args.engine_ok
                 THEN resp'.text = <<SuccessMessage(req'.op)>>
                 ELSE /\ resp'.text # <<>>
                      /\ resp'.text[1] = FailureMessage(req'.op)
                      /\ employees' = employees)]_vars

\* the commit of an edit of a stored row failed: the failure is reported, the row
\* keeps its old name and the session is empty
C14_Witness ==
    /\ req.op = "edit_employee"
    /\ ~req.args.engine_ok
    /\ resp.text # <<>> /\ resp.text[1] = "Error updating employee: "
    /\ \E e \in employees : e.id = req.args.employee_id /\ e.name # req.args.form.name
    /\ session = EmptySession

\* the first word of a line, in lower case: what stands before the first blank of the
\* trimmed line
FirstWord(line) ==
    LET t == Lowercase(Trim(line))
        n == CHOOSE n \in 0..Len(t) :
                 /\ \A i \in 1..n : t[i] \notin {" ", "\t", "\n"}
                 /\ (n = Len(t) \/ t[n + 1] \in {" ", "\t", "\n"})
    IN  SubSeq(t, 1, n)

QuitEntered(line) == FirstWord(line) = <<"q","u","i","t">>

EmptyLine(line) == Trim(line) = <<>>

CommandNames ==
    { <<"q","u","i","t">>,
      <<"l","i","s","t","_","e","m","p","l","o","y","e","e","s">>,
      <<"g","e","t","_","e","m","p","l","o","y","e","e">>,
      <<"s","e","a","r","c","h","_","e","m","p","l","o","y","e","e","s">>,
      <<"l","i","s","t","_","d","e","p","a","r","t","m","e","n","t","s">>,
      <<"g","e","t","_","e","m","p","l","o","y","e","e","_","s","t","a","t","s">>,
      <<"s","a","f","e","_","q","u","e","r","y">> }

\* the pass has printed something: a text or a value
Printed(r) == r.text # <<>> \/ r.result # None

(***************************************************************************)
(* C15, as stated.  Every line that is not the quit command, the empty     *)
(* line included, prints a message and leaves the loop ready to read the   *)
(* next line.                                                              *)
(***************************************************************************)
C15_EveryLineButQuitPrints ==
    [][(req'.op = "command" /\ ~QuitEntered(req'.args.line)) =>
          /\ loop' = "input"
          /\ Printed(resp')]_vars

(***************************************************************************)
(* C15, amended.  The loop ends only on the quit command or a keyboard     *)
(* interrupt.  Every other line leaves the loop ready to read the next     *)
(* line; it prints a message unless the line is empty, in which case it    *)
(* prints nothing, and the message for an unknown command name is          *)
(* 'Unknown command'.  A pass over quit ends the loop without a call or a  *)
(* message, an ended loop reads and runs nothing more, and whenever quit   *)
(* has been entered the loop eventually ends.                              *)
(***************************************************************************)
C15_LoopEndsOnQuitAlone ==
    /\ [][(loop # "ended" /\ loop' = "ended") =>
             \/ req'.op = "KeyboardInterrupt"
             \/ req'.op = "command" /\ QuitEntered(req'.args.line)]_vars
    /\ [][(req'.op = "command" /\ ~QuitEntered(req'.args.line)) =>
             /\ loop' = "input"
             /\ Printed(resp') = ~EmptyLine(req'.args.line)
             /\ ((~EmptyLine(req'.args.line) /\ FirstWord(req'.args.line) \notin CommandNames)
                    => resp'.text = <<"Unknown command">>)]_vars
    /\ [][(req'.op = "command" /\ QuitEntered(req'.args.line)) =>
             /\ loop' = "ended"
             /\ ~Printed(resp')
             /\ executed' = <<>>
             /\ connections'.opened = 0]_vars
    /\ [][loop = "ended" => (loop' = "ended" /\ req'.op \notin {"input", "command"})]_vars
    /\ ((loop = "dispatch" /\ QuitEntered(req.args.line)) ~> loop = "ended")

\* quit, in mixed case and with a word after it, has ended the loop over a stored
\* table without a call
C15_Witness ==
    /\ loop = "ended"
    /\ req.op = "command"
    /\ req.args.line = <<" ">> \o <<"Q","u","i","T">> \o <<" ">> \o <<"1">>
    /\ executed = <<>>
    /\ employees # {}

====
